---- MODULE Spec2Model ----
(***************************************************************************)
(* Model of the mailbox traversal scripts tempaltes.py / templates.py:     *)
(* get_auth_token, get_folder_id, get_messages, get_attachments and the    *)
(* __main__ driver that chains them.  The four functions are the same in   *)
(* both files; line numbers below refer to tempaltes.py.                   *)
(*                                                                         *)
(* Python values: None is the empty tuple, a present value x is <<x>>.     *)
(* A JSON object is a record; `"k" in d` is "k" \in DOMAIN d and d["k"]    *)
(* on a missing key raises KeyError.  The outcome of a call is either      *)
(* Return(v) or Raise(exception name).                                     *)
(*                                                                         *)
(* The remote parties (msal token cache, identity provider, Graph API)     *)
(* are the environment: what they answer is chosen with \E in each action. *)
(* Graph answers are JSON objects: a collection body {"value": [...]}      *)
(* whose entries carry the documented fields, or an error body             *)
(* {"error": ...} with a non-success status.                               *)
(***************************************************************************)
EXTENDS Integers, Sequences, FiniteSets, TLC

VARIABLES
    pc,            \* position of the __main__ driver, or "unit" for direct calls
    client_id, tenant_id, username, password,   \* os.getenv values
    access_token,  \* driver variable, line 121
    folder_id,     \* driver variable, line 122
    messages_id,   \* driver variable, line 123
    attachments,   \* driver variable, line 124
    error,         \* uncaught exception that ended the driver: None or <<[line, exc]>>
    requests,      \* every call sent out of the process, in order
    last,          \* the latest function call: arguments, answer, outcome
    prev           \* the call before the latest one

vars == <<pc, client_id, tenant_id, username, password, access_token, folder_id,
          messages_id, attachments, error, requests, last, prev>>

----------------------------------------------------------------------------
(* Bounds *)
MaxFolders == 2
MaxMsgs == 2
MaxAtts == 2

----------------------------------------------------------------------------
(* Python values *)
None == <<>>
Just(x) == <<x>>
Return(v) == [kind |-> "return", val |-> v]
Raise(e) == [kind |-> "raise", exc |-> e]
HasKey(d, k) == k \in DOMAIN d

RECURSIVE SeqsUpTo(_, _)
SeqsUpTo(S, n) ==
    IF n = 0 THEN {<<>>}
    ELSE LET shorter == SeqsUpTo(S, n - 1)
         IN shorter \cup {Append(s, e) : s \in {t \in shorter : Len(t) = n - 1}, e \in S}

----------------------------------------------------------------------------
(* Environment: credentials, msal, identity provider *)
CredStr == {"", "x"}
Tokens == {"abc123", "tok2"}
AuthErrors == {"invalid_grant", "interaction_required"}

\* acquire_token_silent answers None on a cache miss, a token response on a hit
SilentResults == {None} \cup {Just([access_token |-> t]) : t \in Tokens}

\* acquire_token_by_username_password always answers a dict; the identity
\* provider issues a token only for a complete credential, and may still refuse
RopcResults(cid, tid, user, pwd) ==
    {[error |-> e] : e \in AuthErrors}
    \cup (IF cid = "" \/ tid = "" \/ user = "" \/ pwd = "" THEN {}
          ELSE {[access_token |-> t] : t \in Tokens})

(* Environment: Graph API *)
ErrorStatus == {401, 404, 429}
ErrorResponses == {[status_code |-> s, body |-> [error |-> "ErrorBody"]] : s \in ErrorStatus}

\* the driver's folder name, 'Vkhidni' transliterates the Ukrainian literal of line 122
MainFolderName == "Vkhidni"
DisplayNames == {"Inbox", "inbox", MainFolderName}
FolderNames == DisplayNames \cup {"Archive"}
FolderIds == {"F1", "F2"}
FolderEntries == [displayName : DisplayNames, id : FolderIds]
FolderResponses ==
    {[status_code |-> 200, body |-> [value |-> fs]] : fs \in SeqsUpTo(FolderEntries, MaxFolders)}
    \cup ErrorResponses

MessageIds == {"M1", "M2"}
MessageEntries == [id : MessageIds]
MessageResponses ==
    {[status_code |-> 200, body |-> [value |-> ms]] : ms \in SeqsUpTo(MessageEntries, MaxMsgs)}
    \cup ErrorResponses

AttachmentEntries == [id : {"A1", "A2"}, name : {"a.pdf"}]
AttachmentResponses ==
    {[status_code |-> 200, body |-> [value |-> as]] : as \in SeqsUpTo(AttachmentEntries, MaxAtts)}
    \cup ErrorResponses

----------------------------------------------------------------------------
(* get_auth_token, lines 8-34.  silent / ropc are what the two msal calls   *)
(* answer; calls lists the msal calls made, in order.                       *)
Falsy(result) == result = None

get_auth_token_return_none(cid, tid, user, pwd, silent, ropc) ==
    LET exchange == Falsy(silent)
        result == IF exchange THEN Just(ropc) ELSE silent
        calls == <<"acquire_token_silent">>
                 \o (IF exchange THEN <<"acquire_token_by_username_password">> ELSE <<>>)
    IN [out |-> IF HasKey(result[1], "access_token")
                THEN Return(Just(result[1].access_token))
                ELSE Return(None),
        calls |-> calls]

get_auth_token_always_exchange(cid, tid, user, pwd, silent, ropc) ==
    LET result == Just(ropc)
        calls == <<"acquire_token_silent", "acquire_token_by_username_password">>
    IN [out |-> IF HasKey(result[1], "access_token")
                THEN Return(Just(result[1].access_token))
                ELSE Raise("UnboundLocalError"),
        calls |-> calls]

get_auth_token(cid, tid, user, pwd, silent, ropc) ==
    LET exchange == Falsy(silent)                                  \* line 30
        result == IF exchange THEN Just(ropc) ELSE silent          \* line 31
        calls == <<"acquire_token_silent">>                        \* line 29
                 \o (IF exchange THEN <<"acquire_token_by_username_password">> ELSE <<>>)
    IN [out |-> IF HasKey(result[1], "access_token")               \* line 32
                THEN Return(Just(result[1].access_token))          \* lines 33-34
                ELSE Raise("UnboundLocalError"),                   \* line 34, name never bound
        calls |-> calls]

----------------------------------------------------------------------------
(* get_folder_id, lines 37-60 *)
get_folder_id_request(token) ==
    [api |-> "mailFolders", bearer |-> token, id |-> None]

RECURSIVE ScanFolders(_, _)
ScanFolders(folders, folder_name) ==                               \* lines 57-60
    IF folders = <<>> THEN Return(None)
    ELSE IF Head(folders).displayName = folder_name THEN Return(Just(Head(folders).id))
    ELSE ScanFolders(Tail(folders), folder_name)

RECURSIVE ScanFoldersLast(_, _)
ScanFoldersLast(folders, folder_name) ==
    IF folders = <<>> THEN Return(None)
    ELSE IF folders[Len(folders)].displayName = folder_name
         THEN Return(Just(folders[Len(folders)].id))
    ELSE ScanFoldersLast(SubSeq(folders, 1, Len(folders) - 1), folder_name)

get_folder_id_last_match(token, folder_name, response) ==
    IF ~HasKey(response.body, "value") THEN Return(None)
    ELSE ScanFoldersLast(response.body.value, folder_name)

get_folder_id_no_except(token, folder_name, response) ==
    IF ~HasKey(response.body, "value") THEN Raise("KeyError")
    ELSE ScanFolders(response.body.value, folder_name)

get_folder_id(token, folder_name, response) ==
    IF ~HasKey(response.body, "value") THEN Return(None)           \* lines 52-55
    ELSE ScanFolders(response.body.value, folder_name)

----------------------------------------------------------------------------
(* get_messages, lines 63-87 *)
get_messages_request(token, fid) ==
    [api |-> "messages", bearer |-> token, id |-> fid]

RECURSIVE CollectIds(_, _)
CollectIds(msgs, messages_id_acc) ==                               \* lines 85-86
    IF msgs = <<>> THEN messages_id_acc
    ELSE CollectIds(Tail(msgs), Append(messages_id_acc, Head(msgs).id))

RECURSIVE CollectIdsFront(_, _)
CollectIdsFront(msgs, messages_id_acc) ==
    IF msgs = <<>> THEN messages_id_acc
    ELSE CollectIdsFront(Tail(msgs), <<Head(msgs).id>> \o messages_id_acc)

get_messages_insert_front(token, fid, response) ==
    IF ~HasKey(response.body, "value") THEN Raise("KeyError")
    ELSE Return(CollectIdsFront(response.body.value, <<>>))

get_messages(token, fid, response) ==
    IF ~HasKey(response.body, "value") THEN Raise("KeyError")      \* line 85
    ELSE Return(CollectIds(response.body.value, <<>>))             \* lines 84-87

----------------------------------------------------------------------------
(* get_attachments, lines 90-111 *)
get_attachments_request(token, mid) ==
    [api |-> "attachments", bearer |-> token, id |-> mid]

get_attachments_first_only(token, mid, response) ==
    IF HasKey(response.body, "value") /\ response.body.value # <<>>
    THEN Return([value |-> <<Head(response.body.value)>>])
    ELSE Return(response.body)

get_attachments(token, mid, response) ==
    Return(response.body)                                          \* lines 110-111

----------------------------------------------------------------------------
NoCall == [fn |-> "none"]

TypeOK ==
    /\ pc \in {"line121", "line122", "line123", "line124", "done", "aborted", "unit"}
    /\ {client_id, tenant_id, username, password} \subseteq CredStr
    /\ Len(access_token) <= 1 /\ Len(folder_id) <= 1
    /\ Len(error) <= 1

InitCommon ==
    /\ access_token = None /\ folder_id = None
    /\ messages_id = <<>> /\ attachments = None
    /\ error = None /\ requests = <<>>
    /\ last = NoCall /\ prev = NoCall

(* __main__, lines 115-124 *)
Init ==
    /\ pc = "line121"
    /\ client_id \in CredStr /\ tenant_id \in CredStr              \* lines 117-118
    /\ username \in CredStr /\ password \in CredStr                \* lines 119-120
    /\ InitCommon

MsalRequests(calls) == [i \in 1..Len(calls) |-> [api |-> calls[i], bearer |-> None, id |-> None]]

Abort(line, exc) ==
    /\ pc' = "aborted"
    /\ error' = Just([line |-> line, exc |-> exc])

Main_get_auth_token ==                                             \* line 121
    /\ pc = "line121"
    /\ \E silent \in SilentResults,
          ropc \in RopcResults(client_id, tenant_id, username, password) :
         LET r == get_auth_token(client_id, tenant_id, username, password, silent, ropc)
         IN /\ requests' = requests \o MsalRequests(r.calls)
            /\ last' = [fn |-> "get_auth_token",
                        args |-> <<client_id, tenant_id, username, password>>,
                        silent |-> silent, ropc |-> ropc,
                        calls |-> r.calls, out |-> r.out]
            /\ prev' = last
            /\ IF r.out.kind = "return"
               THEN /\ access_token' = r.out.val
                    /\ pc' = "line122"
                    /\ UNCHANGED error
               ELSE /\ Abort(121, r.out.exc)
                    /\ UNCHANGED access_token
    /\ UNCHANGED <<client_id, tenant_id, username, password, folder_id, messages_id, attachments>>

Main_get_folder_id ==                                              \* line 122
    /\ pc = "line122"
    /\ \E response \in FolderResponses :
         LET out == get_folder_id(access_token, MainFolderName, response)
         IN /\ requests' = Append(requests, get_folder_id_request(access_token))
            /\ last' = [fn |-> "get_folder_id", token |-> access_token,
                        folder_name |-> MainFolderName, response |-> response, out |-> out]
            /\ prev' = last
            /\ IF out.kind = "return"
               THEN /\ folder_id' = out.val
                    /\ pc' = "line123"
                    /\ UNCHANGED error
               ELSE /\ Abort(122, out.exc)
                    /\ UNCHANGED folder_id
    /\ UNCHANGED <<client_id, tenant_id, username, password, access_token, messages_id, attachments>>

\* a request for the folder "None" (f-string of an absent id) is answered by an error body
MessageResponsesFor(fid) == IF fid = None THEN ErrorResponses ELSE MessageResponses

Main_get_messages ==                                               \* line 123
    /\ pc = "line123"
    /\ \E response \in MessageResponsesFor(folder_id) :
         LET out == get_messages(access_token, folder_id, response)
         IN /\ requests' = Append(requests, get_messages_request(access_token, folder_id))
            /\ last' = [fn |-> "get_messages", token |-> access_token,
                        id |-> folder_id, response |-> response, out |-> out]
            /\ prev' = last
            /\ IF out.kind = "return"
               THEN /\ messages_id' = out.val
                    /\ pc' = "line124"
                    /\ UNCHANGED error
               ELSE /\ Abort(123, out.exc)
                    /\ UNCHANGED messages_id
    /\ UNCHANGED <<client_id, tenant_id, username, password, access_token, folder_id, attachments>>

Main_get_attachments ==                                            \* line 124
    /\ pc = "line124"
    /\ IF messages_id = <<>>
       THEN /\ Abort(124, "IndexError")                            \* messages_id[0]
            /\ UNCHANGED <<requests, last, prev, attachments>>
       ELSE \E response \in AttachmentResponses :
              LET mid == Just(messages_id[1])
                  out == get_attachments(access_token, mid, response)
              IN /\ requests' = Append(requests, get_attachments_request(access_token, mid))
                 /\ last' = [fn |-> "get_attachments", token |-> access_token,
                             id |-> mid, response |-> response, out |-> out]
                 /\ prev' = last
                 /\ IF out.kind = "return"
                    THEN /\ attachments' = Just(out.val)
                         /\ pc' = "done"
                         /\ UNCHANGED error
                    ELSE /\ Abort(124, out.exc)
                         /\ UNCHANGED attachments
    /\ UNCHANGED <<client_id, tenant_id, username, password, access_token, folder_id, messages_id>>

Next ==
    \/ Main_get_auth_token
    \/ Main_get_folder_id
    \/ Main_get_messages
    \/ Main_get_attachments

Spec == Init /\ [][Next]_vars

----------------------------------------------------------------------------
(* Direct calls: one call of one of the four functions with arbitrary       *)
(* arguments and answers, and for get_folder_id the same call once more.    *)
InitUnit ==
    /\ pc = "unit"
    /\ client_id = "x" /\ tenant_id = "x" /\ username = "x" /\ password = "x"
    /\ InitCommon

UnitFrame ==
    UNCHANGED <<pc, client_id, tenant_id, username, password, access_token, folder_id,
                messages_id, attachments, error>>

Call_get_auth_token ==
    /\ pc = "unit"
    /\ last = NoCall
    /\ \E cid \in CredStr, tid \in CredStr, user \in CredStr, pwd \in CredStr :
       \E silent \in SilentResults, ropc \in RopcResults(cid, tid, user, pwd) :
         LET r == get_auth_token(cid, tid, user, pwd, silent, ropc)
         IN /\ requests' = MsalRequests(r.calls)
            /\ last' = [fn |-> "get_auth_token", args |-> <<cid, tid, user, pwd>>,
                        silent |-> silent, ropc |-> ropc,
                        calls |-> r.calls, out |-> r.out]
    /\ prev' = last
    /\ UnitFrame

FolderCall(token, folder_name, response) ==
    [fn |-> "get_folder_id", token |-> token, folder_name |-> folder_name,
     response |-> response, out |-> get_folder_id(token, folder_name, response)]

Call_get_folder_id ==
    /\ pc = "unit"
    /\ last = NoCall
    /\ \E t \in Tokens, folder_name \in FolderNames, response \in FolderResponses :
         /\ requests' = <<get_folder_id_request(Just(t))>>
         /\ last' = FolderCall(Just(t), folder_name, response)
    /\ prev' = last
    /\ UnitFrame

\* the same call once more: same token, same name, same mailbox answer
Repeat_get_folder_id ==
    /\ pc = "unit"
    /\ last.fn = "get_folder_id"
    /\ prev.fn # "get_folder_id"
    /\ requests' = <<get_folder_id_request(last.token)>>
    /\ last' = FolderCall(last.token, last.folder_name, last.response)
    /\ prev' = last
    /\ UnitFrame

Call_get_messages ==
    /\ pc = "unit"
    /\ last = NoCall
    /\ \E t \in Tokens, fid \in FolderIds, response \in MessageResponses :
         /\ requests' = <<get_messages_request(Just(t), Just(fid))>>
         /\ last' = [fn |-> "get_messages", token |-> Just(t), id |-> Just(fid),
                     response |-> response,
                     out |-> get_messages(Just(t), Just(fid), response)]
    /\ prev' = last
    /\ UnitFrame

Call_get_attachments ==
    /\ pc = "unit"
    /\ last = NoCall
    /\ \E t \in Tokens, mid \in MessageIds, response \in AttachmentResponses :
         /\ requests' = <<get_attachments_request(Just(t), Just(mid))>>
         /\ last' = [fn |-> "get_attachments", token |-> Just(t), id |-> Just(mid),
                     response |-> response,
                     out |-> get_attachments(Just(t), Just(mid), response)]
    /\ prev' = last
    /\ UnitFrame

NextUnit ==
    \/ Call_get_auth_token
    \/ Call_get_folder_id
    \/ Repeat_get_folder_id
    \/ Call_get_messages
    \/ Call_get_attachments

SpecUnit == InitUnit /\ [][NextUnit]_vars

----------------------------------------------------------------------------
(* Properties *)
GraphApis == {"mailFolders", "messages", "attachments"}
IsRaise(out, e) == out.kind = "raise" /\ out.exc = e
YieldsToken(result) == result # None /\ HasKey(result[1], "access_token")
NoTokenYielded(call) == ~YieldsToken(call.silent) /\ ~HasKey(call.ropc, "access_token")
LacksCollection(call) == ~HasKey(call.response.body, "value")
NamesIn(folders) == {folders[i].displayName : i \in 1..Len(folders)}
FirstMatch(folders, name) ==
    LET hits == {i \in 1..Len(folders) : folders[i].displayName = name}
    IN IF hits = {} THEN None
       ELSE Just(folders[CHOOSE i \in hits : \A j \in hits : i <= j].id)

\* C1: when neither the silent acquisition nor the username/password exchange
\* yields a response with an 'access_token', get_auth_token fails with
\* AuthenticationError.
C1_NoTokenRaisesAuthenticationError ==
    (last.fn = "get_auth_token" /\ NoTokenYielded(last))
        => IsRaise(last.out, "AuthenticationError")

\* C2: every folder-listing, message-listing or attachment request of the driver
\* carries the non-empty access token that token acquisition returned, and once
\* token acquisition has failed no such request is ever made.
C2_DownstreamNeedsToken ==
    /\ \A i \in 1..Len(requests) :
         requests[i].api \in GraphApis =>
            /\ requests[i].bearer # None
            /\ requests[i].bearer[1] # ""
            /\ requests[i].bearer = access_token
            /\ \E j \in 1..(i - 1) : requests[j].api = "acquire_token_silent"
    /\ (error # None /\ error[1].line = 121) =>
         /\ pc = "aborted"
         /\ \A i \in 1..Len(requests) : requests[i].api \notin GraphApis

C2_AuthFailureAborted ==
    /\ pc = "aborted" /\ error # None /\ error[1].line = 121
    /\ last.fn = "get_auth_token" /\ NoTokenYielded(last)
    /\ requests # <<>>

\* C3: the driver never sends the message-listing request with an absent
\* (None) folder identifier.
C3_NoMessageListingForAbsentFolder ==
    \A i \in 1..Len(requests) :
        requests[i].api = "messages" => requests[i].id # None

C5_MissingCollectionRaisesTraversalError ==
    (last.fn \in {"get_messages", "get_attachments"} /\ LacksCollection(last))
        => IsRaise(last.out, "TraversalError")

\* C6: for a message-list response with a 'value' array, get_messages returns a
\* sequence of the same length whose i-th element is the 'id' of the i-th entry.
C6_ListMapsIdsInOrder ==
    (last.fn = "get_messages" /\ ~LacksCollection(last))
        => /\ last.out.kind = "return"
           /\ Len(last.out.val) = Len(last.response.body.value)
           /\ \A i \in 1..Len(last.out.val) :
                last.out.val[i] = last.response.body.value[i].id

C6_TwoDistinctMessagesListed ==
    /\ last.fn = "get_messages" /\ ~LacksCollection(last)
    /\ Len(last.response.body.value) = 2
    /\ last.response.body.value[1].id # last.response.body.value[2].id
    /\ last.out.kind = "return" /\ Len(last.out.val) = 2

C8_EmptyCredentialRaisesAuthenticationError ==
    last.fn = "get_auth_token" =>
        /\ ("" \in {last.args[i] : i \in 1..4})
              => IsRaise(last.out, "AuthenticationError")
        /\ ("" \notin {last.args[i] : i \in 1..4} /\ ~NoTokenYielded(last))
              => /\ last.out.kind = "return"
                 /\ last.out.val # None /\ last.out.val[1] # ""

C10_SilentBeforeExchange ==
    last.fn = "get_auth_token" =>
        /\ last.calls[1] = "acquire_token_silent"
        /\ \A i \in 1..Len(last.calls) :
              last.calls[i] = "acquire_token_by_username_password"
                  => (i = 2 /\ last.silent = None)
        /\ YieldsToken(last.silent)
              => /\ last.calls = <<"acquire_token_silent">>
                 /\ last.out = Return(Just(last.silent[1].access_token))

C10_SilentHitReturned ==
    /\ last.fn = "get_auth_token" /\ YieldsToken(last.silent)
    /\ last.out.kind = "return"
    /\ pc = "line122" /\ access_token = Just(last.silent[1].access_token)

====
